---- MODULE Spec2Model ----
(***************************************************************************)
(* Model of the substance-finder pipeline: processor.process_df (parameter *)
(* parsing, column selection, the call of the matcher, the run statistics) *)
(* and the web handler app.process that builds its params from the form.   *)
(*                                                                         *)
(* Text is a sequence of one-character strings, so that strip, lower,      *)
(* startswith, float() and int() are computed character by character.      *)
(* Floats are carried as integer hundredths (0.85 is 85, 100.0 is 10000    *)
(* for a percentage rounded to two decimals).                              *)
(***************************************************************************)
EXTENDS Integers, Sequences, FiniteSets, TLC

(***************************************************************************)
(* Python values that are not text.                                        *)
(***************************************************************************)
\* numpy.nan / a null cell of an object column
NaN == <<"NaN">>

\* Python None (a params value, or "no column found")
None == <<"None">>

\* Python True and False
PyTrue == <<"True">>

PyFalse == <<"False">>

(***************************************************************************)
(* Text primitives.                                                        *)
(***************************************************************************)
\* str.isspace for one character
IsSpace(c) == c \in {" ", "\t", "\n"}

RECURSIVE lstrip(_)
lstrip(s) == IF s # <<>> /\ IsSpace(Head(s)) THEN lstrip(Tail(s)) ELSE s

RECURSIVE rstrip(_)
rstrip(s) ==
    IF s # <<>> /\ IsSpace(s[Len(s)]) THEN rstrip(SubSeq(s, 1, Len(s) - 1)) ELSE s

\* str.strip()
strip(s) == rstrip(lstrip(s))

\* str.lower() for one character
LowerChar(c) ==
    CASE c = "A" -> "a" [] c = "B" -> "b" [] c = "E" -> "e" [] c = "F" -> "f"
      [] c = "L" -> "l" [] c = "N" -> "n" [] c = "O" -> "o" [] c = "R" -> "r"
      [] c = "S" -> "s" [] c = "T" -> "t" [] c = "U" -> "u" [] c = "Y" -> "y"
      [] OTHER -> c

\* str.lower()
lower(s) == [i \in 1..Len(s) |-> LowerChar(s[i])]

\* str.startswith(prefix)
startswith(s, prefix) ==
    Len(s) >= Len(prefix) /\ SubSeq(s, 1, Len(prefix)) = prefix

\* str(value) / Series.astype(str) for one cell: a null cell renders as "nan",
\* None as "None", the booleans by name, text as itself
str(value) ==
    CASE value = NaN -> <<"n", "a", "n">>
      [] value = None -> <<"N", "o", "n", "e">>
      [] value = PyTrue -> <<"T", "r", "u", "e">>
      [] value = PyFalse -> <<"F", "a", "l", "s", "e">>
      [] OTHER -> value

\* Series.astype(str)
astype_str(series) == [i \in 1..Len(series) |-> str(series[i])]

\* pandas isna for one cell
isna(value) == value = NaN \/ value = None

(***************************************************************************)
(* float() and int() of a params value.  The result is a record: ok is     *)
(* FALSE where Python raises ValueError or TypeError.                      *)
(***************************************************************************)
IsDigit(c) == c \in {"0", "1", "2", "3", "4", "5", "6", "7", "8", "9"}

DigitVal(c) ==
    CASE c = "0" -> 0 [] c = "1" -> 1 [] c = "2" -> 2 [] c = "3" -> 3
      [] c = "4" -> 4 [] c = "5" -> 5 [] c = "6" -> 6 [] c = "7" -> 7
      [] c = "8" -> 8 [] c = "9" -> 9

AllDigits(s) == \A i \in 1..Len(s) : IsDigit(s[i])

RECURSIVE DigitsVal(_)
DigitsVal(s) ==
    IF s = <<>> THEN 0
    ELSE DigitsVal(SubSeq(s, 1, Len(s) - 1)) * 10 + DigitVal(s[Len(s)])

Raised == [ok |-> FALSE, val |-> 0]

Parsed(n) == [ok |-> TRUE, val |-> n]

\* the text after an optional sign, and the sign
Unsigned(t) == IF t # <<>> /\ Head(t) \in {"+", "-"} THEN Tail(t) ELSE t

SignOf(t) == IF t # <<>> /\ Head(t) = "-" THEN -1 ELSE 1

\* int(text): optional surrounding whitespace, optional sign, decimal digits
IntOfText(s) ==
    LET t == strip(s)
        body == Unsigned(t)
    IN  IF body # <<>> /\ AllDigits(body)
        THEN Parsed(SignOf(t) * DigitsVal(body))
        ELSE Raised

\* the fraction digits as hundredths (digits after the second are dropped: the
\* texts of the model carry at most two)
Hundredths(frac) ==
    CASE Len(frac) = 0 -> 0
      [] Len(frac) = 1 -> DigitVal(frac[1]) * 10
      [] OTHER -> DigitVal(frac[1]) * 10 + DigitVal(frac[2])

\* float(text), in hundredths: whitespace, sign, digits with at most one point
FloatOfText(s) ==
    LET t == strip(s)
        body == Unsigned(t)
        dots == {i \in 1..Len(body) : body[i] = "."}
        dot == IF dots = {} THEN Len(body) + 1 ELSE CHOOSE i \in dots : TRUE
        whole == SubSeq(body, 1, dot - 1)
        frac == SubSeq(body, dot + 1, Len(body))
    IN  IF /\ Cardinality(dots) <= 1
           /\ Len(whole) + Len(frac) > 0
           /\ AllDigits(whole)
           /\ AllDigits(frac)
        THEN Parsed(SignOf(t) * (DigitsVal(whole) * 100 + Hundredths(frac)))
        ELSE Raised

\* float(value)
float(value) ==
    CASE value = None -> Raised
      [] value = PyTrue -> Parsed(100)
      [] value = PyFalse -> Parsed(0)
      [] OTHER -> FloatOfText(value)

\* int(value)
int(value) ==
    CASE value = None -> Raised
      [] value = PyTrue -> Parsed(1)
      [] value = PyFalse -> Parsed(0)
      [] OTHER -> IntOfText(value)

\* the decimal text of a natural number
DigitChar(d) ==
    CASE d = 0 -> "0" [] d = 1 -> "1" [] d = 2 -> "2" [] d = 3 -> "3"
      [] d = 4 -> "4" [] d = 5 -> "5" [] d = 6 -> "6" [] d = 7 -> "7"
      [] d = 8 -> "8" [] d = 9 -> "9"

RECURSIVE IntText(_)
IntText(n) ==
    IF n < 10 THEN <<DigitChar(n)>>
    ELSE IntText(n \div 10) \o <<DigitChar(n % 10)>>

(***************************************************************************)
(* Data frames: the column names in table order and, per name, the cells.  *)
(***************************************************************************)
Frame(columns, data) == [columns |-> columns, data |-> data]

\* name in df.columns
HasColumn(df, name) == \E i \in 1..Len(df.columns) : df.columns[i] = name

\* len(df)
len(df) == IF df.columns = <<>> THEN 0 ELSE Len(df.data[df.columns[1]])

\* a frame of one column
OneColumn(name, cells) == Frame(<<name>>, [c \in {name} |-> cells])

Max(a, b) == IF a >= b THEN a ELSE b

Min(a, b) == IF a <= b THEN a ELSE b

(***************************************************************************)
(* Names and defaults of the source.                                       *)
(***************************************************************************)
substance == <<"s", "u", "b", "s", "t", "a", "n", "c", "e">>

Bezeichnung == <<"B", "e", "z", "e", "i", "c", "h", "n", "u", "n", "g">>

Substanz == <<"S", "u", "b", "s", "t", "a", "n", "z">>

Mapped_to == <<"M", "a", "p", "p", "e", "d", "_", "t", "o">>

Original == <<"O", "r", "i", "g", "i", "n", "a", "l">>

Normalized == <<"N", "o", "r", "m", "a", "l", "i", "z", "e", "d">>

Score == <<"S", "c", "o", "r", "e">>

\* threshold default 0.85, in hundredths
DefaultThreshold == 85

DefaultMaxPerMatchId == 2

\* freq.head(20)
TopN == 20

(***************************************************************************)
(* process_df: parameter parsing (lines 78-91).                            *)
(***************************************************************************)
\* params.get(key, default) for a key whose default is text or None
Get(params, key, default) ==
    IF key \in DOMAIN params THEN params[key] ELSE default

\* ParseThreshold without its except clause
ParseThresholdNoExcept(params) ==
    IF "threshold" \notin DOMAIN params THEN Parsed(DefaultThreshold)
    ELSE float(params["threshold"])

\* try: float(params.get("threshold", 0.85)) except Exception: 0.85
ParseThreshold(params) ==
    IF "threshold" \notin DOMAIN params THEN Parsed(DefaultThreshold)
    ELSE LET r == float(params["threshold"])
         IN  IF r.ok THEN r ELSE Parsed(DefaultThreshold)

\* try: int(params.get("max_per_match_id", 2)) except Exception: 2
ParseMaxPerMatchId(params) ==
    IF "max_per_match_id" \notin DOMAIN params THEN Parsed(DefaultMaxPerMatchId)
    ELSE LET r == int(params["max_per_match_id"])
         IN  IF r.ok THEN r ELSE Parsed(DefaultMaxPerMatchId)

TruthyTexts ==
    { <<"1">>, <<"t", "r", "u", "e">>, <<"y", "e", "s">>, <<"o", "n">> }

\* _parse_bool(value, default)
parse_bool(value, default) ==
    CASE value = None -> default
      [] value = PyTrue -> TRUE
      [] value = PyFalse -> FALSE
      [] OTHER -> lower(strip(str(value))) \in TruthyTexts

\* ParseOnlyFirstMatch with params.get("only_first_match") and no default
ParseOnlyFirstMatchNoDefault(params) ==
    parse_bool(Get(params, "only_first_match", None), FALSE)

\* _parse_bool(params.get("only_first_match", True))
ParseOnlyFirstMatch(params) ==
    parse_bool(Get(params, "only_first_match", PyTrue), FALSE)

\* Python truth of a params value
Falsy(value) == value \in {None, PyFalse, <<>>}

\* params.get("substance_col") or "substance"
SubstanceCol(params) ==
    LET v == Get(params, "substance_col", None)
    IN  IF Falsy(v) THEN substance ELSE v

\* params.get("ref_substance_col") or "substance"
RefSubstanceCol(params) ==
    LET v == Get(params, "ref_substance_col", None)
    IN  IF Falsy(v) THEN substance ELSE v

(***************************************************************************)
(* process_df: the series handed to add_substance (lines 93-102).          *)
(***************************************************************************)
\* ColSeries whose placeholder is pd.Series([""]), one row whatever the dataset
ColSeriesOneRow(data_df, params) ==
    IF HasColumn(data_df, SubstanceCol(params))
    THEN astype_str(data_df.data[SubstanceCol(params)])
    ELSE << <<>> >>

ColSeries(data_df, params) ==
    IF HasColumn(data_df, SubstanceCol(params))
    THEN astype_str(data_df.data[SubstanceCol(params)])
    ELSE [i \in 1..len(data_df) |-> <<>>]

\* RefSeries that falls back to the first reference column
RefSeriesFirstColumn(ref_df, params) ==
    IF HasColumn(ref_df, RefSubstanceCol(params))
    THEN astype_str(ref_df.data[RefSubstanceCol(params)])
    ELSE astype_str(ref_df.data[ref_df.columns[1]])

RefSeries(ref_df, params) ==
    IF HasColumn(ref_df, RefSubstanceCol(params))
    THEN astype_str(ref_df.data[RefSubstanceCol(params)])
    ELSE <<>>

\* the arguments of the add_substance call of lines 105-111; ok is FALSE when
\* parsing a parameter raised out of process_df
CallArgs(data_df, ref_df, params) ==
    [ ok |-> ParseThreshold(params).ok /\ ParseMaxPerMatchId(params).ok,
      col_with_substances |-> ColSeries(data_df, params),
      col_with_ref_substances |-> RefSeries(ref_df, params),
      threshold |-> ParseThreshold(params).val,
      max_per_match_id |-> ParseMaxPerMatchId(params).val,
      only_first_match |-> ParseOnlyFirstMatch(params) ]

(***************************************************************************)
(* The matcher of utils.py (preprocess_data, get_matches), which is not    *)
(* part of the available source: modelled from sections 4.1-4.3 of the     *)
(* specification.  Scores are in hundredths (1.0 is 100).                  *)
(***************************************************************************)
\* 4.1: case folding and whitespace cleanup
normalize(value) == lower(strip(str(value)))

\* the similarity of two normalized texts: the share of positions that agree
similarity(a, b) ==
    LET agree == {i \in 1..Min(Len(a), Len(b)) : a[i] = b[i]}
    IN  IF a = <<>> \/ b = <<>> THEN 0
        ELSE (Cardinality(agree) * 100) \div Max(Len(a), Len(b))

\* a stable sort of records by their field n, largest first: an element goes
\* behind the larger ones and behind the equal ones that precede it
SortDesc(s) ==
    LET place == [i \in 1..Len(s) |->
                    1 + Cardinality({j \in 1..Len(s) :
                                        s[j].n > s[i].n \/ (s[j].n = s[i].n /\ j < i)})]
    IN  [p \in 1..Len(s) |-> s[CHOOSE i \in 1..Len(s) : place[i] = p]]

\* 4.2: the vocabulary entries that reach the threshold, in vocabulary order;
\* empty text on either side is no match
RECURSIVE Candidates(_, _, _)
Candidates(text, vocabulary, threshold) ==
    IF vocabulary = <<>> THEN <<>>
    ELSE LET ref == Head(vocabulary)
             sc == similarity(text, normalize(ref))
             rest == Candidates(text, Tail(vocabulary), threshold)
         IN  IF text # <<>> /\ normalize(ref) # <<>> /\ sc >= threshold
             THEN <<[v |-> ref, n |-> sc]>> \o rest
             ELSE rest

\* 4.2: the kept candidates of one normalized value, best first
match(text, vocabulary, threshold, max_matches, first_only) ==
    LET sorted == SortDesc(Candidates(text, vocabulary, threshold))
        cap == IF first_only THEN Min(1, max_matches) ELSE max_matches
    IN  SubSeq(sorted, 1, Min(Len(sorted), Max(cap, 0)))

\* 4.3: the names of the k-th mapped-identifier and score columns
MappedName(k, max_matches) ==
    IF max_matches = 1 THEN Mapped_to ELSE Mapped_to \o IntText(k)

ScoreName(k, max_matches) ==
    IF max_matches = 1 THEN Score ELSE Score \o IntText(k)

\* the columns of the match table, in order
RECURSIVE SlotColumns(_, _)
SlotColumns(k, max_matches) ==
    IF k > max_matches THEN <<>>
    ELSE <<MappedName(k, max_matches), ScoreName(k, max_matches)>>
             \o SlotColumns(k + 1, max_matches)

\* 4.3: one row per input row; an empty slot is a null cell
get_matches(args) ==
    LET col == args.col_with_substances
        rows == 1..Len(col)
        mx == args.max_per_match_id
        found == [i \in rows |->
                    match(normalize(col[i]), args.col_with_ref_substances,
                          args.threshold, mx, args.only_first_match)]
        columns == <<Original, Normalized>> \o SlotColumns(1, mx)
        cells(name) ==
            IF name = Original THEN col
            ELSE IF name = Normalized THEN [i \in rows |-> normalize(col[i])]
            ELSE LET k == CHOOSE j \in 1..mx :
                            name \in {MappedName(j, mx), ScoreName(j, mx)}
                 IN  [i \in rows |->
                        IF k > Len(found[i]) THEN NaN
                        ELSE IF name = MappedName(k, mx) THEN found[i][k].v
                        ELSE IntText(found[i][k].n)]
    IN  Frame(columns,
              [name \in {columns[c] : c \in 1..Len(columns)} |-> cells(name)])

\* add_substance (lines 5-45): preprocess_data, then get_matches
add_substance(args) == get_matches(args)

(***************************************************************************)
(* process_df: the statistics (lines 113-176).                             *)
(***************************************************************************)
\* find_mapped_column without the preference for the exact name
find_first_prefixed(df) ==
    LET hits == {i \in 1..Len(df.columns) : startswith(df.columns[i], Mapped_to)}
    IN  IF hits = {} THEN None
        ELSE df.columns[CHOOSE i \in hits : \A j \in hits : i <= j]

\* _find_mapped_column (lines 56-68)
find_mapped_column(df) ==
    LET hits == {i \in 1..Len(df.columns) : startswith(df.columns[i], Mapped_to)}
    IN  IF HasColumn(df, Mapped_to) THEN Mapped_to
        ELSE IF hits = {} THEN None
        ELSE df.columns[CHOOSE i \in hits : \A j \in hits : i <= j]

\* len(pd.concat([data_reset, match_reset], axis=1)): the union of both indexes
total_rows(data_df, match_df) == Max(len(data_df), len(match_df))

\* line 127 for one cell
CellMissing(value) == isna(value) \/ strip(str(value)) = <<>>

\* lines 123-127
missing_mask(match_df, mapped_col, rows) ==
    IF mapped_col = None
    THEN [i \in 1..rows |-> TRUE]
    ELSE [i \in 1..len(match_df) |-> CellMissing(match_df.data[mapped_col][i])]

\* int(missing_mask.sum())
missing_count(mask) == Cardinality({i \in DOMAIN mask : mask[i]})

\* round(num / den, 0) for naturals, ties to the even neighbour
RoundHalfEven(num, den) ==
    LET q == num \div den
        r == num % den
    IN  IF 2 * r > den \/ (2 * r = den /\ q % 2 = 1) THEN q + 1 ELSE q

\* round((n / d) * 100, 2), in hundredths; ZeroDivisionError when d is 0
Percent(n, d) == IF d = 0 THEN Raised ELSE Parsed(RoundHalfEven(n * 10000, d))

\* missing_pct without the guard on total_rows
missing_pct_unguarded(missing, rows) == Percent(missing, rows)

\* line 130
missing_pct(missing, rows) ==
    IF rows > 0 THEN Percent(missing, rows) ELSE Parsed(0)

\* the rows of a series at the positions `keep`, in row order
Rows(series, keep) ==
    LET place == [i \in keep |-> Cardinality({j \in keep : j <= i})]
    IN  [p \in 1..Cardinality(keep) |-> series[CHOOSE i \in keep : place[i] = p]]

\* series.loc[mask]
Where(series, mask) == Rows(series, {i \in 1..Len(series) : mask[i]})

\* .astype(str).str.strip().replace({"": None}).dropna()
StrippedNonEmpty(series) ==
    LET text == [i \in 1..Len(series) |-> strip(str(series[i]))]
    IN  Rows(text, {i \in 1..Len(series) : text[i] # <<>>})

\* lines 136-142
original_missing(match_df, mask) ==
    StrippedNonEmpty(Where(match_df.data[Original], mask))

\* line 153
original_all(match_df) == StrippedNonEmpty(match_df.data[Original])

Range(s) == {s[i] : i \in 1..Len(s)}

\* the distinct values of a series, in order of first appearance
Distinct(series) ==
    Rows(series, {i \in 1..Len(series) : \A j \in 1..(i - 1) : series[j] # series[i]})

\* Series.value_counts(): most frequent first, ties in order of first appearance
value_counts(series) ==
    LET d == Distinct(series)
    IN  SortDesc([i \in 1..Len(d) |->
                    [v |-> d[i],
                     n |-> Cardinality({j \in 1..Len(series) : series[j] = d[i]})]])

\* head that keeps every row
head_all(freq, k) == freq

\* freq.head(k)
head(freq, k) == SubSeq(freq, 1, Min(k, Len(freq)))

\* Series.nunique()
nunique(series) == Cardinality(Range(series))

\* lines 144-150: the (value, count) tuples of the most frequent missing inputs
unique_missing_examples(missing_values) ==
    LET top20 == head(value_counts(missing_values), TopN)
    IN  [i \in 1..Len(top20) |-> <<top20[i].v, top20[i].n>>]

\* x or 1
Or1(x) == IF x = 0 THEN 1 ELSE x

\* unique_missing_pct over the row count in both branches
unique_missing_pct_by_rows(has_original, unique_missing, unique_total, rows) ==
    Percent(unique_missing, Or1(rows))

\* unique_missing_pct over unique_total (or 1) in both branches
unique_missing_pct_by_unique(has_original, unique_missing, unique_total, rows) ==
    Percent(unique_missing, Or1(unique_total))

\* line 156 with an Original column, line 160 without
unique_missing_pct(has_original, unique_missing, unique_total, rows) ==
    IF has_original
    THEN Percent(unique_missing, Or1(unique_total))
    ELSE Percent(unique_missing, Or1(rows))

\* lines 113-176; elapsed is time.time() - start in units of 0.0001 s.  The
\* field ok is FALSE when a line raises; the other fields are the stats record
Statistics(data_df, match_df, elapsed) ==
    LET mapped_col == find_mapped_column(match_df)
        rows == total_rows(data_df, match_df)
        mask == missing_mask(match_df, mapped_col, rows)
        missing == missing_count(mask)
        has_original == HasColumn(match_df, Original)
        missing_values == IF has_original THEN original_missing(match_df, mask) ELSE <<>>
        unique_total == IF has_original THEN nunique(original_all(match_df)) ELSE 0
        unique_missing == IF has_original THEN nunique(missing_values) ELSE missing
        pct == missing_pct(missing, rows)
        unique_pct == unique_missing_pct(has_original, unique_missing, unique_total, rows)
    IN  [ ok |-> pct.ok /\ unique_pct.ok,
          total_rows |-> rows,
          missing_count |-> missing,
          missing_pct |-> pct.val,
          unique_total_values |-> unique_total,
          unique_missing_count |-> unique_missing,
          unique_missing_pct |-> unique_pct.val,
          processing_seconds |-> elapsed,
          columns_out |-> match_df.columns,
          mapped_column |-> mapped_col,
          unique_missing_examples |->
              IF has_original THEN unique_missing_examples(missing_values) ELSE <<>> ]

(***************************************************************************)
(* app.process: the params record built from the form (lines 54-67).       *)
(***************************************************************************)
true == <<"t", "r", "u", "e">>

false == <<"f", "a", "l", "s", "e">>

\* request.form.get(key, default).strip() or default
FormText(form, key, default) ==
    LET v == strip(Get(form, key, default))
    IN  IF v = <<>> THEN default ELSE v

FormParams(form) ==
    [ substance_col |-> FormText(form, "substance_col", Bezeichnung),
      ref_substance_col |-> FormText(form, "ref_substance_col", Substanz),
      threshold |-> strip(Get(form, "threshold", <<"0", ".", "8", "5">>)),
      max_per_match_id |-> strip(Get(form, "max_per_match_id", <<"2">>)),
      only_first_match |->
          IF Get(form, "only_first_match", None) # None THEN true ELSE false ]

(***************************************************************************)
(* Bounds of the model and the inputs drawn within them.                   *)
(***************************************************************************)
\* rows of a subject dataset whose cells are enumerated exhaustively
MaxRows == 2

\* rows of a reference dataset
MaxRef == 1

\* time.time() - start takes the values 0..MaxElapsed
MaxElapsed == 1

\* calls of process_df in one behaviour
MaxCalls == 2

\* the large subject datasets hold up to TopN + Extra distinct values
Extra == 1

other == <<"o", "t", "h", "e", "r">>

Seqs(S, n) == UNION {[1..k -> S] : k \in 0..n}

Dict(key, value) == [k \in {key} |-> value]

\* the subject and reference datasets of the main specification
MainData ==
    {OneColumn(c, v) : c \in {substance, other},
                       v \in Seqs({<<"a">>, <<" ", "B">>, NaN}, MaxRows)}

MainRef ==
    {OneColumn(c, v) : c \in {substance, other},
                       v \in Seqs({<<"b">>}, MaxRef)}

MainParams ==
    { <<>>,
      Dict("substance_col", other),
      Dict("ref_substance_col", other),
      [max_per_match_id |-> <<"1">>, only_first_match |-> false] }

MainForm == [substance_col |-> <<" ">> \o substance, ref_substance_col |-> other]

(***************************************************************************)
(* A matcher known only by its table contract (4.3): one row per input     *)
(* row, Original a copy of the input; which mapped-identifier columns it   *)
(* returns, in which order and with which cells, is free.  A layout is     *)
(* the sequence of its columns, each with the role that fills it.          *)
(***************************************************************************)
Mapped_to1 == Mapped_to \o <<"1">>

Mapped_to2 == Mapped_to \o <<"2">>

Col(name, role) == [name |-> name, role |-> role]

Layouts ==
    { <<Col(Original, "input"), Col(Normalized, "norm"),
        Col(Mapped_to, "first"), Col(Score, "score")>>,
      <<Col(Original, "input"), Col(Normalized, "norm"),
        Col(Mapped_to1, "first"), Col(Mapped_to2, "second")>>,
      <<Col(Original, "input"), Col(Mapped_to2, "first"), Col(Mapped_to, "second")>>,
      <<Col(Original, "input"), Col(Score, "score"),
        Col(Mapped_to2, "second"), Col(Mapped_to1, "first")>>,
      <<Col(Original, "input"), Col(Normalized, "norm")>>,
      <<Col(Normalized, "norm"), Col(Mapped_to, "first")>>,
      <<Col(Normalized, "norm"), Col(Score, "score")>> }

MappedCells == {<<"x">>, <<" ">>, NaN}

\* the cells of the "first" mapped column: every assignment for a small table,
\* a few patterns for a large one
Assignments(n) ==
    IF n <= MaxRows THEN [1..n -> MappedCells]
    ELSE { [i \in 1..n |-> NaN],
           [i \in 1..n |-> IF i % 2 = 1 THEN NaN ELSE <<"x">>],
           [i \in 1..n |-> IF i % 3 = 0 THEN <<"x">> ELSE <<" ">>] }

StubTable(layout, col, first) ==
    LET rows == 1..Len(col)
        cells(role) ==
            CASE role = "input" -> col
              [] role = "norm" -> [i \in rows |-> normalize(col[i])]
              [] role = "first" -> first
              [] role = "second" ->
                    [i \in rows |-> IF CellMissing(first[i]) THEN <<"y">> ELSE NaN]
              [] role = "score" -> [i \in rows |-> NaN]
    IN  Frame([c \in 1..Len(layout) |-> layout[c].name],
              [name \in {layout[c].name : c \in 1..Len(layout)} |->
                  cells(layout[CHOOSE c \in 1..Len(layout) : layout[c].name = name].role)])

HasRole(layout, role) == \E c \in 1..Len(layout) : layout[c].role = role

\* the matchers of this kind for a dataset of n rows
TableMatchers(n) ==
    {[kind |-> "table", layout |-> layout, first |-> first] :
        layout \in {l \in Layouts : HasRole(l, "first")}, first \in Assignments(n)}
    \cup {[kind |-> "table", layout |-> layout, first |-> [i \in 1..n |-> NaN]] :
            layout \in {l \in Layouts : ~HasRole(l, "first")}}

\* the matcher of sections 4.1-4.3
ContractMatcher == [kind |-> "contract", layout |-> <<>>, first |-> <<>>]

(***************************************************************************)
(* The state.                                                              *)
(***************************************************************************)
VARIABLES
    data_df,    \* the subject dataset
    ref_df,     \* the reference dataset
    params,     \* the params record of a direct process_df call
    form,       \* request.form of a POST /process
    utils,      \* the matcher in use: ContractMatcher or one of TableMatchers
    pc,         \* the last entry point run: "start", "process_df" or "process"
    outcome,    \* "none", "returned" or "raised"
    handed,     \* the arguments process_df handed to add_substance
    match_df,   \* the match table returned
    stats,      \* the statistics record returned
    calls       \* the number of process_df calls so far

vars == <<data_df, ref_df, params, form, utils, pc, outcome, handed, match_df, stats, calls>>

inputs == <<data_df, ref_df, params, form, utils>>

NoFrame == Frame(<<>>, <<>>)

NoCall ==
    [ ok |-> FALSE, col_with_substances |-> <<>>, col_with_ref_substances |-> <<>>,
      threshold |-> 0, max_per_match_id |-> 0, only_first_match |-> FALSE ]

\* StatsRecord on a module-level dict that keeps a running total of the rows
StatsRecordRunning(st) ==
    [f \in DOMAIN st \ {"ok"} |->
        IF f = "total_rows" THEN st[f] + stats.total_rows ELSE st[f]]

\* the dict of lines 165-176
StatsRecord(st) == [f \in DOMAIN st \ {"ok"} |-> st[f]]

\* no statistics returned yet
NoStats ==
    [ total_rows |-> 0, missing_count |-> 0, missing_pct |-> 0,
      unique_total_values |-> 0, unique_missing_count |-> 0,
      unique_missing_pct |-> 0, processing_seconds |-> 0, columns_out |-> <<>>,
      mapped_column |-> None, unique_missing_examples |-> <<>> ]

NotRun ==
    /\ pc = "start"
    /\ outcome = "none"
    /\ handed = NoCall
    /\ match_df = NoFrame
    /\ stats = NoStats
    /\ calls = 0

\* the main specification: the matcher of 4.1-4.3 over small datasets
Init ==
    /\ data_df \in MainData
    /\ ref_df \in MainRef
    /\ params \in MainParams
    /\ form = MainForm
    /\ utils = ContractMatcher
    /\ NotRun

\* the parameter specification: one dataset, every form of the parameters
Opt(key, values) == {<<>>} \cup {Dict(key, v) : v \in values}

ParamPool ==
    {t @@ m @@ f :
        t \in Opt("threshold", {None, <<"0", ".", "5">>, <<"1">>, <<"a", "b", "c">>,
                                <<>>, <<" ", "0", ".", "9", " ">>}),
        m \in Opt("max_per_match_id", {None, <<"1">>, <<"3">>, <<"2", ".", "5">>,
                                       <<"x">>, <<" ", "2">>, <<"0">>}),
        f \in Opt("only_first_match", {None, PyTrue, PyFalse, true, false,
                                       <<" ", "Y", "E", "S">>, <<"0">>, <<>>})}

FormPool ==
    { <<>>,
      [substance_col |-> substance, ref_substance_col |-> substance,
       only_first_match |-> <<"o", "n">>],
      [substance_col |-> substance, ref_substance_col |-> substance,
       only_first_match |-> <<>>, threshold |-> <<" ", "0", ".", "5">>,
       max_per_match_id |-> <<"x">>],
      [substance_col |-> substance, ref_substance_col |-> substance,
       threshold |-> <<"0", ".", "5">>, max_per_match_id |-> <<"1">>] }

InitParams ==
    /\ data_df = OneColumn(substance, << <<"a", "b">>, <<"a">> >>)
    /\ ref_df = OneColumn(substance, << <<"a", "c">>, <<"a">> >>)
    /\ \/ params \in ParamPool /\ form = <<>>
       \/ params = <<>> /\ form \in FormPool
    /\ utils = ContractMatcher
    /\ NotRun

\* the table specification: any match table of the contract, over small
\* datasets and over large ones with about TopN distinct values
\* value i of a large dataset
BigValue(i) == <<"v">> \o IntText(i)

\* n distinct values: each once ("flat"), or each once, then the even ones
\* again, then every fourth a third time ("mixed")
BigRows(n, profile) ==
    IF profile = "flat" THEN [r \in 1..n |-> BigValue(r)]
    ELSE [r \in 1..(n + n \div 2 + n \div 4) |->
            BigValue(IF r <= n THEN r
                     ELSE IF r <= n + n \div 2 THEN 2 * (r - n)
                     ELSE 4 * (r - n - n \div 2))]

TableData ==
    {OneColumn(substance, v) : v \in Seqs({<<"a">>, <<" ", "a">>, <<>>}, MaxRows)}
        \cup {OneColumn(substance, BigRows(n, profile)) :
                n \in (TopN - 1)..(TopN + Extra), profile \in {"flat", "mixed"}}

InitTable ==
    /\ data_df \in TableData
    /\ ref_df = OneColumn(substance, <<>>)
    /\ params = <<>>
    /\ form = MainForm
    /\ utils \in TableMatchers(len(data_df))
    /\ NotRun

\* the table the matcher in use returns for a call
MatcherOutput(args) ==
    IF utils.kind = "contract" THEN add_substance(args)
    ELSE StubTable(utils.layout, args.col_with_substances, utils.first)

\* process_df(data_df, ref_df, p), entered from `entry`
Run(p, entry) ==
    /\ calls < MaxCalls
    /\ calls' = calls + 1
    /\ pc' = entry
    /\ UNCHANGED inputs
    /\ \E args \in {CallArgs(data_df, ref_df, p)} :
          IF ~args.ok
          THEN /\ outcome' = "raised"
               /\ handed' = NoCall
               /\ match_df' = NoFrame
               /\ stats' = NoStats
          ELSE \E elapsed \in 0..MaxElapsed, m \in {MatcherOutput(args)} :
                 \E st \in {Statistics(data_df, m, elapsed)} :
                    /\ handed' = args
                    /\ outcome' = IF st.ok THEN "returned" ELSE "raised"
                    /\ match_df' = IF st.ok THEN m ELSE NoFrame
                    /\ stats' = IF st.ok THEN StatsRecord(st) ELSE NoStats

\* a direct call process_df(data_df, ref_df, params)
ProcessDf == Run(params, "process_df")

\* POST /process with both files read: params from the form, then process_df
\* (a raise ends in the error page of lines 122-126)
Process == Run(FormParams(form), "process")

Next == ProcessDf \/ Process

Spec == Init /\ [][Next]_vars

SpecParams == InitParams /\ [][Next]_vars

SpecTable == InitTable /\ [][Next]_vars

(***************************************************************************)
(* Vocabulary of the claims.                                               *)
(***************************************************************************)
\* process_df has been called and has returned its pair
Returned == pc # "start" /\ outcome = "returned"

\* the params record the last call of process_df was given
PassedParams == IF pc = "process" THEN FormParams(form) ELSE params

\* the rows of the match table returned
TableRows == 1..len(match_df)

\* a row is missing: no mapped column was reported, or its cell there is null
\* or blank once rendered as text and trimmed
RowMissing(i) ==
    \/ stats.mapped_column = None
    \/ match_df.data[stats.mapped_column][i] \in {NaN, None}
    \/ strip(str(match_df.data[stats.mapped_column][i])) = <<>>

\* the Original value of a row, rendered as text and trimmed
OriginalText(i) == strip(str(match_df.data[Original][i]))

\* the distinct non-empty Original values of the missing rows, and of all rows
MissingValues == {OriginalText(i) : i \in {j \in TableRows : RowMissing(j)}} \ {<<>>}

AllValues == {OriginalText(i) : i \in TableRows} \ {<<>>}

\* the number of missing rows that carry a value
MissingRowsWith(v) ==
    Cardinality({i \in TableRows : RowMissing(i) /\ OriginalText(i) = v})

Examples == stats.unique_missing_examples

ExampleValues == {Examples[i][1] : i \in 1..Len(Examples)}

(***************************************************************************)
(* The claims.                                                             *)
(***************************************************************************)
\* C1: process_df never raises; on a subject dataset of 0 rows it reports
\* total_rows = 0 and missing_pct = 0.0, and whenever total_rows or
\* unique_total_values is 0 both percentages are computed (no division by zero)
\* and are finite numbers.
C1_ZeroDivisionSafe ==
    pc # "start" =>
        /\ outcome = "returned"
        /\ len(data_df) = 0 => stats.total_rows = 0 /\ stats.missing_pct = 0
        /\ stats.total_rows = 0 \/ stats.unique_total_values = 0 =>
              /\ stats.missing_pct \in 0..10000
              /\ stats.unique_missing_pct \in 0..10000

C1_Witness ==
    /\ Returned
    /\ len(data_df) = 0
    /\ stats.total_rows = 0
    /\ stats.unique_total_values = 0
    /\ ~HasColumn(match_df, Original)

\* C2: a threshold that is missing or that float() rejects is replaced by 0.85,
\* a max_per_match_id that is missing or that int() rejects by 2; process_df
\* does not fail, and the matcher gets the parsed value or that default.
C2_TolerantParsing ==
    pc # "start" =>
        /\ outcome = "returned"
        /\ handed.threshold =
              IF "threshold" \in DOMAIN PassedParams
                 /\ float(PassedParams["threshold"]).ok
              THEN float(PassedParams["threshold"]).val
              ELSE DefaultThreshold
        /\ handed.max_per_match_id =
              IF "max_per_match_id" \in DOMAIN PassedParams
                 /\ int(PassedParams["max_per_match_id"]).ok
              THEN int(PassedParams["max_per_match_id"]).val
              ELSE DefaultMaxPerMatchId

C2_Witness ==
    /\ pc = "process_df"
    /\ outcome = "returned"
    /\ "threshold" \in DOMAIN params
    /\ ~float(params["threshold"]).ok
    /\ "max_per_match_id" \in DOMAIN params
    /\ ~int(params["max_per_match_id"]).ok
    /\ handed.threshold = DefaultThreshold
    /\ handed.max_per_match_id = DefaultMaxPerMatchId

C4_Original ==
    [][pc # "start" /\ pc' = pc => match_df' = match_df /\ stats' = stats]_vars

\* C4 as amended: a second run on the same datasets and parameters returns the
\* same match table and the same statistics in every field but
\* processing_seconds, which is the wall-clock time of the run.
C4_IdempotentButTiming ==
    [][pc # "start" /\ pc' = pc =>
          /\ match_df' = match_df
          /\ [stats' EXCEPT !.processing_seconds = 0]
                = [stats EXCEPT !.processing_seconds = 0]]_vars

C4_Witness ==
    /\ calls >= 2
    /\ Returned
    /\ stats.total_rows > 0
    /\ stats.missing_count < stats.total_rows

\* C5: unique_missing_examples has at most 20 entries, in non-increasing order
\* of count; each entry is a distinct non-empty trimmed Original value of a
\* missing row with the number of missing rows that carry it; no value left
\* out is more frequent than one listed, and none is left out while there is
\* room.
C5_TopMissing ==
    Returned =>
        IF HasColumn(match_df, Original)
        THEN /\ Len(Examples) <= TopN
             /\ Len(Examples) = Min(TopN, Cardinality(MissingValues))
             /\ \A i, j \in 1..Len(Examples) :
                    /\ i < j => Examples[i][2] >= Examples[j][2]
                    /\ i # j => Examples[i][1] # Examples[j][1]
             /\ \A i \in 1..Len(Examples) :
                    /\ Examples[i][1] \in MissingValues
                    /\ Examples[i][2] = MissingRowsWith(Examples[i][1])
             /\ \A v \in MissingValues \ ExampleValues :
                    \A i \in 1..Len(Examples) : MissingRowsWith(v) <= Examples[i][2]
        ELSE Examples = <<>>

C5_Witness ==
    /\ Returned
    /\ HasColumn(match_df, Original)
    /\ Cardinality(MissingValues) > TopN
    /\ Len(Examples) = TopN
    /\ Examples[1][2] > Examples[TopN][2]
    /\ \E v \in MissingValues \ ExampleValues : MissingRowsWith(v) = Examples[TopN][2]

\* the reference dataset is empty or lacks the configured reference column
ReferenceEmpty ==
    len(ref_df) = 0 \/ ~HasColumn(ref_df, RefSubstanceCol(PassedParams))

\* C6 as stated: with an empty reference dataset, or without the configured
\* reference column, the matcher gets an empty vocabulary and, for every
\* subject dataset, missing_count = total_rows and missing_pct = 100.0, the
\* examples being the distinct non-empty Original values.
C6_Original ==
    Returned /\ ReferenceEmpty =>
        /\ handed.col_with_ref_substances = <<>>
        /\ stats.missing_count = stats.total_rows
        /\ stats.missing_pct = 10000
        /\ ExampleValues \subseteq AllValues
        /\ Len(Examples) = Min(TopN, Cardinality(AllValues))

\* C6 as amended: the same, with missing_pct = 100.0 when the subject dataset
\* has at least one row and 0.0 when it has none.
C6_EmptyReference ==
    Returned /\ ReferenceEmpty =>
        /\ handed.col_with_ref_substances = <<>>
        /\ stats.missing_count = stats.total_rows
        /\ stats.missing_pct = IF stats.total_rows > 0 THEN 10000 ELSE 0
        /\ ExampleValues \subseteq AllValues
        /\ Len(Examples) = Min(TopN, Cardinality(AllValues))

C6_Witness ==
    /\ Returned
    /\ ReferenceEmpty
    /\ len(ref_df) > 0
    /\ stats.total_rows > 1
    /\ stats.missing_pct = 10000
    /\ Examples # <<>>

\* the configured subject column
ConfiguredColumn == SubstanceCol(PassedParams)

\* C7: without the configured substance_col process_df does not raise, hands
\* the matcher one empty string per subject row, and reports every row
\* missing; with it, it hands the column's cells as text, one per row, in row
\* order.
C7_SubjectColumn ==
    pc # "start" =>
        /\ outcome = "returned"
        /\ Len(handed.col_with_substances) = len(data_df)
        /\ IF HasColumn(data_df, ConfiguredColumn)
           THEN \A i \in 1..len(data_df) :
                    handed.col_with_substances[i] = str(data_df.data[ConfiguredColumn][i])
           ELSE /\ \A i \in 1..len(data_df) : handed.col_with_substances[i] = <<>>
                /\ stats.total_rows = len(data_df)
                /\ stats.missing_count = stats.total_rows

C7_Witness ==
    /\ Returned
    /\ ~HasColumn(data_df, ConfiguredColumn)
    /\ len(data_df) > 1
    /\ len(ref_df) > 0
    /\ HasColumn(ref_df, RefSubstanceCol(PassedParams))
    /\ stats.missing_count = len(data_df)

\* the names of the columns of the match table
ColumnNames == {match_df.columns[c] : c \in 1..Len(match_df.columns)}

\* the discovered mapped column: Mapped_to itself, or else the first column in
\* table order whose name starts with Mapped_to
Discovered(name) ==
    \/ name = Mapped_to /\ Mapped_to \in ColumnNames
    \/ /\ Mapped_to \notin ColumnNames
       /\ \E c \in 1..Len(match_df.columns) :
            /\ match_df.columns[c] = name
            /\ startswith(name, Mapped_to)
            /\ \A b \in 1..(c - 1) : ~startswith(match_df.columns[b], Mapped_to)

\* the rows whose cell in a column is null or blank as trimmed text
BlankRows(name) ==
    {i \in TableRows :
        \/ match_df.data[name][i] \in {NaN, None}
        \/ strip(str(match_df.data[name][i])) = <<>>}

\* C8: missing_count is the number of rows whose cell in the discovered mapped
\* column is null or blank; without such a column every row is missing and
\* mapped_column is null.
C8_MissingCount ==
    Returned =>
        /\ \A name \in ColumnNames :
              Discovered(name) =>
                 /\ stats.mapped_column = name
                 /\ stats.missing_count = Cardinality(BlankRows(name))
        /\ (\A name \in ColumnNames : ~Discovered(name)) =>
                 /\ stats.mapped_column = None
                 /\ stats.missing_count = stats.total_rows

C8_Witness ==
    /\ Returned
    /\ Len(match_df.columns) = 3
    /\ match_df.columns[2] = Mapped_to2
    /\ match_df.columns[3] = Mapped_to
    /\ stats.mapped_column = Mapped_to
    /\ stats.missing_count = 1
    /\ BlankRows(Mapped_to2) # BlankRows(Mapped_to)
    /\ stats.total_rows = 2

\* C9 as stated: unique_missing_pct is unique_missing_count over
\* unique_total_values (1 in place of 0), times 100, rounded to 2 decimals, in
\* every run; without an Original column unique_total_values = 0 and
\* unique_missing_count = missing_count.
C9_Original ==
    Returned =>
        /\ stats.unique_missing_pct =
              Percent(stats.unique_missing_count,
                      IF stats.unique_total_values = 0 THEN 1
                      ELSE stats.unique_total_values).val
        /\ ~HasColumn(match_df, Original) =>
              /\ stats.unique_total_values = 0
              /\ stats.unique_missing_count = stats.missing_count

\* C9 as amended: that quotient holds when the match table has an Original
\* column; without one unique_total_values = 0, unique_missing_count =
\* missing_count and the divisor is total_rows (1 in place of 0).
C9_UniqueMissingPct ==
    Returned =>
        IF HasColumn(match_df, Original)
        THEN stats.unique_missing_pct =
                Percent(stats.unique_missing_count,
                        IF stats.unique_total_values = 0 THEN 1
                        ELSE stats.unique_total_values).val
        ELSE /\ stats.unique_total_values = 0
             /\ stats.unique_missing_count = stats.missing_count
             /\ stats.unique_missing_pct =
                   Percent(stats.missing_count,
                           IF stats.total_rows = 0 THEN 1 ELSE stats.total_rows).val

C9_Witness ==
    /\ Returned
    /\ ~HasColumn(match_df, Original)
    /\ stats.total_rows = 2
    /\ stats.missing_count = 2
    /\ stats.unique_missing_pct = 10000

\* C10: 0 <= missing_count <= total_rows; unique_missing_count <=
\* unique_total_values when the match table has an Original column; missing_pct
\* and unique_missing_pct lie in [0, 100], also when unique_total_values = 0.
C10_StatisticsInRange ==
    Returned =>
        /\ 0 <= stats.missing_count
        /\ stats.missing_count <= stats.total_rows
        /\ HasColumn(match_df, Original) =>
              stats.unique_missing_count <= stats.unique_total_values
        /\ stats.missing_pct \in 0..10000
        /\ stats.unique_missing_pct \in 0..10000

C10_Witness ==
    /\ Returned
    /\ stats.unique_total_values = 0
    /\ stats.unique_missing_count > 1
    /\ stats.total_rows > stats.missing_count

====
